---- MODULE Spec2Model ----
(***************************************************************************)
(* Lockr: the LSM engine (write buffer, write-ahead log, segments with     *)
(* their index and Bloom filter, recency cache, engine lock).              *)
(*                                                                         *)
(* Strings are sequences of one-character strings, files are sequences of  *)
(* characters, maps are functions on a finite set of keys.                 *)
(***************************************************************************)
EXTENDS Integers, Sequences, FiniteSets, TLC

(***************************************************************************)
(* Bounds of the model.                                                    *)
(***************************************************************************)
\* number of engine Set calls (direct or through Delete) in one behaviour
\* with restarts
MaxWrites == 3
\* number of engine Set calls in one behaviour of a single process run
MaxRunWrites == 4
\* cap on a cache access counter (Cache.Get increments it without limit)
MaxCount == 2
\* number of entries of a buffer written to one segment file by itself
MaxEntries == 3
\* number of engine calls that write (Set, Delete) in one behaviour of
\* concurrent clients
MaxStepWrites == 4
MaxCapacity == 2
MaxFaultWrites == 3
MaxBufferWrites == 3

(***************************************************************************)
(* Program constants.  The two sizes are scaled down so that a flush and   *)
(* a cache eviction happen within a few writes; as in the program the     *)
(* cache holds fewer keys than a flush needs.                              *)
(***************************************************************************)
\* const memTableSizeThreshold = 1024 * 1024 (entry count), scaled
memTableSizeThreshold == 2
\* NewCache(1000), scaled
cacheMaxSize == 1
\* NewBloomFilter: size := uint(2097152), scaled
bloomSize == 16
\* NewBloomFilter: hashFuncs := uint(7)
hashFuncs == 7

(***************************************************************************)
(* Text.                                                                   *)
(***************************************************************************)
Comma == ","
NL == "\n"
CR == "\r"
EmptyString == << >>

\* the keys and values the clients use
Keys == { <<"a">>, <<"b">> }
Values == { EmptyString, <<"x">>, <<"y">> }
\* the keys (no comma, no newline) and values (no newline) of a buffer
\* written to disk by itself
SegKeys == { <<"a">>, <<"b">>, <<"a", "a">>, <<"a", "b">>, <<"b", "a">> }
SegValues == { EmptyString, <<"x">>, <<",">>, <<"x", ",", "y">>, <<"x", "\r">> }

\* byte value of a character (ASCII)
CharCode(ch) ==
  CASE ch = "a" -> 97 [] ch = "b" -> 98 [] ch = "x" -> 120 [] ch = "y" -> 121
    [] ch = "," -> 44 [] ch = "\n" -> 10 [] ch = "\r" -> 13 [] OTHER -> 63

\* strings.Index(s, ch) + 1, 0 when ch does not occur
IndexOf(s, ch) ==
  IF \E i \in 1..Len(s) : s[i] = ch
    THEN CHOOSE i \in 1..Len(s) : s[i] = ch /\ \A j \in 1..(i - 1) : s[j] # ch
    ELSE 0

\* strings.SplitN(line, ",", 2)
SplitN2(line) ==
  LET i == IndexOf(line, Comma)
  IN  IF i = 0 THEN << line >>
      ELSE << SubSeq(line, 1, i - 1), SubSeq(line, i + 1, Len(line)) >>

\* fmt.Sprintf("%s,%s\n", key, value)
FormatEntry(key, value) == key \o << Comma >> \o value \o << NL >>

\* bufio.ScanLines drops one trailing carriage return of a line
DropCR(line) ==
  IF Len(line) > 0 /\ line[Len(line)] = CR
    THEN SubSeq(line, 1, Len(line) - 1)
    ELSE line

\* bufio.Scanner with the default split function: the lines of data, the
\* last one also when it is not newline-terminated
RECURSIVE ScanLines(_)
ScanLines(data) ==
  IF data = << >> THEN << >>
  ELSE LET i == IndexOf(data, NL)
       IN  IF i = 0 THEN << DropCR(data) >>
           ELSE << DropCR(SubSeq(data, 1, i - 1)) >>
                  \o ScanLines(SubSeq(data, i + 1, Len(data)))

(***************************************************************************)
(* Maps (Go map[string]string and map[string]int).                         *)
(***************************************************************************)
EmptyMap == << >>
MapSet(m, k, v) == [x \in (DOMAIN m) \cup {k} |-> IF x = k THEN v ELSE m[x]]
MapDelete(m, k) == [x \in (DOMAIN m) \ {k} |-> m[x]]
\* the orders in which a range loop may visit the keys of a map
IterationOrders(S) ==
  { s \in [1..Cardinality(S) -> S] : \A i, j \in DOMAIN s : s[i] = s[j] => i = j }

(***************************************************************************)
(* MemTable.                                                               *)
(***************************************************************************)
NewMemTable == EmptyMap
MemTableSet(m, key, value) == MapSet(m, key, value)
MemTableHas(m, key) == key \in DOMAIN m
MemTableSize(m) == Cardinality(DOMAIN m)

(***************************************************************************)
(* Files.  A path is a sequence of names, a name a pair <<text, number>>.  *)
(***************************************************************************)
dataDir == << <<".Lockr", 0>> >>
Join(dir, name) == Append(dir, name)
Dir(path) == SubSeq(path, 1, Len(path) - 1)
\* the directories that exist: cli.Run creates the data directory, nothing
\* else creates one
Dirs == { dataDir }
FileExists(fs, path) == path \in DOMAIN fs
\* os.Create / os.OpenFile(O_CREATE) succeed only in an existing directory
CanCreate(fs, path) == Dir(path) \in Dirs

walName == <<"wal.log", 0>>
\* a name that does not depend on the time: the faulty variant the formula of
\* C25 is tried against
SSTableNameFixed(timestamp) == <<"sstable.dat", 0>>
SSTableName(timestamp) == <<"sstable.dat", timestamp>>
CompactedName(timestamp) == <<"sstable_compacted.dat", timestamp>>

(***************************************************************************)
(* Write-ahead log.                                                        *)
(***************************************************************************)
NewWAL(dir) == [filePath |-> Join(dir, walName)]

\* a Log that reports success and appends nothing: the faulty variant the
\* formula of C14 is tried against
WALLogNothing(fs, w, key, value) == [ok |-> TRUE, fs |-> fs]

\* WAL.Log: append one line, creating the file when absent
WALLog(fs, w, key, value) ==
  IF CanCreate(fs, w.filePath)
    THEN [ok |-> TRUE,
          fs |-> MapSet(fs, w.filePath,
                        (IF FileExists(fs, w.filePath) THEN fs[w.filePath] ELSE << >>)
                          \o FormatEntry(key, value))]
    ELSE [ok |-> FALSE, fs |-> fs]

\* a replay in which the first line of a key wins over the later ones: the
\* faulty variant the formula of C6 is tried against
WALParseLineFirstWins(entries, parts) ==
  IF Len(parts) = 2 /\ parts[1] \notin DOMAIN entries
    THEN MapSet(entries, parts[1], parts[2])
    ELSE entries

\* the body of the loop of WAL.Recover: a line that splits in two sets its key
WALParseLine(entries, parts) ==
  IF Len(parts) = 2 THEN MapSet(entries, parts[1], parts[2]) ELSE entries

\* the loop of WAL.Recover: later lines shadow earlier ones
RECURSIVE WALParse(_, _)
WALParse(lines, entries) ==
  IF lines = << >> THEN entries
  ELSE WALParse(Tail(lines), WALParseLine(entries, SplitN2(Head(lines))))

\* WAL.Recover: an absent file gives the empty map
WALRecover(fs, w) ==
  IF FileExists(fs, w.filePath) THEN WALParse(ScanLines(fs[w.filePath]), EmptyMap)
  ELSE EmptyMap

\* a clear that leaves the file as it is: the faulty variant the formula of
\* C7 is tried against
WALClearNothing(fs, w) == fs

\* WAL.Clear: truncate to length zero, nothing when the file is absent
WALClear(fs, w) ==
  IF FileExists(fs, w.filePath) THEN MapSet(fs, w.filePath, << >>) ELSE fs

(***************************************************************************)
(* Bloom filter.  bitArray is modelled by the set of its true positions.   *)
(* BloomFilter.hash is 64-bit FNV-1a of the key bytes followed by the seed *)
(* byte, reduced modulo the size; the model keeps the byte-by-byte         *)
(* multiply-and-mix shape at 16 bits (an addition for the exclusive or),   *)
(* which with the small size gives collisions, hence false positives.      *)
(***************************************************************************)
NewBloomFilter == {}

RECURSIVE HashBytes(_, _)
HashBytes(h, bytes) ==
  IF bytes = << >> THEN h
  ELSE HashBytes(((h + Head(bytes)) * 403) % 65536, Tail(bytes))

BloomHash(key, seed) ==
  HashBytes(40389, [i \in 1..Len(key) |-> CharCode(key[i])] \o << seed >>) % bloomSize

\* an Add that starts from a cleared array, so that earlier keys lose their
\* bits: the faulty variant the formula of C11 is tried against
BloomAddCleared(bitArray, key) ==
  { BloomHash(key, i) : i \in 0..(hashFuncs - 1) }

BloomAdd(bitArray, key) ==
  bitArray \cup { BloomHash(key, i) : i \in 0..(hashFuncs - 1) }

BloomMightContain(bitArray, key) ==
  \A i \in 0..(hashFuncs - 1) : BloomHash(key, i) \in bitArray

(***************************************************************************)
(* Segment (SSTable).                                                      *)
(***************************************************************************)
NoSSTable == [filePath |-> << >>, bloomFilter |-> {}, index |-> EmptyMap]

\* the body of the loop of NewSSTable: acc = [data, bloomFilter, index]; the
\* offset of an entry is the length written before it
SSTableWriteEntry(acc, key, value) ==
  [data |-> acc.data \o FormatEntry(key, value),
   bloomFilter |-> BloomAdd(acc.bloomFilter, key),
   index |-> MapSet(acc.index, key, Len(acc.data))]

\* the loop of NewSSTable over memTable.Entries(), visited in `order`
RECURSIVE SSTableWrite(_, _, _)
SSTableWrite(entries, order, acc) ==
  IF order = << >> THEN acc
  ELSE SSTableWrite(entries, Tail(order),
                    SSTableWriteEntry(acc, Head(order), entries[Head(order)]))

\* the end of NewSSTable: the file holds what was written
SSTableCreated(fs, filePath, w) ==
  [ok |-> TRUE,
   fs |-> MapSet(fs, filePath, w.data),
   ssTable |-> [filePath |-> filePath, bloomFilter |-> w.bloomFilter, index |-> w.index]]

\* NewSSTable(dataDir, memTable): the file is created (truncated when it
\* exists) in directory dir under a name made of the timestamp
NewSSTable(fs, dir, entries, order, timestamp) ==
  IF CanCreate(fs, Join(dir, SSTableName(timestamp)))
    THEN SSTableCreated(fs, Join(dir, SSTableName(timestamp)),
           SSTableWrite(entries, order,
             [data |-> << >>, bloomFilter |-> NewBloomFilter, index |-> EmptyMap]))
    ELSE [ok |-> FALSE, fs |-> fs, ssTable |-> NoSSTable]

\* the end of SSTable.Get: the line read at the offset, split
SSTableMatch(parts, key) ==
  IF Len(parts) = 2 /\ parts[1] = key
    THEN [ok |-> TRUE, value |-> parts[2]]
    ELSE [ok |-> TRUE, value |-> EmptyString]

\* SSTable.Get after the seek: scanner.Scan() on the rest of the file
SSTableScan(lines, key) ==
  IF lines # << >> THEN SSTableMatch(SplitN2(Head(lines)), key)
  ELSE [ok |-> TRUE, value |-> EmptyString]

\* SSTable.Get
SSTableGet(fs, s, key) ==
  IF ~BloomMightContain(s.bloomFilter, key) THEN [ok |-> TRUE, value |-> EmptyString]
  ELSE IF key \notin DOMAIN s.index THEN [ok |-> TRUE, value |-> EmptyString]
  ELSE IF ~FileExists(fs, s.filePath) THEN [ok |-> FALSE, value |-> EmptyString]
  ELSE SSTableScan(
         ScanLines(SubSeq(fs[s.filePath], s.index[key] + 1, Len(fs[s.filePath]))), key)

\* the body of the loop of SSTable.List: lines with an empty value are left out
SSTableParseLine(result, parts) ==
  IF Len(parts) = 2 /\ parts[2] # EmptyString
    THEN MapSet(result, parts[1], parts[2])
    ELSE result

\* the loop of SSTable.List
RECURSIVE SSTableParse(_, _)
SSTableParse(lines, result) ==
  IF lines = << >> THEN result
  ELSE SSTableParse(Tail(lines), SSTableParseLine(result, SplitN2(Head(lines))))

\* SSTable.List
SSTableList(fs, s) ==
  IF FileExists(fs, s.filePath)
    THEN [ok |-> TRUE, entries |-> SSTableParse(ScanLines(fs[s.filePath]), EmptyMap)]
    ELSE [ok |-> FALSE, entries |-> EmptyMap]

(***************************************************************************)
(* Recency cache.  A CacheEntry's timestamp is written and never read.     *)
(***************************************************************************)
NewCache(maxSize) == [entries |-> EmptyMap, maxSize |-> maxSize, accessCount |-> EmptyMap]

\* Cache.Get: value, found, and the cache with the access counted
CacheGet(c, key) ==
  IF key \in DOMAIN c.entries
    THEN [found |-> TRUE, value |-> c.entries[key],
          cache |-> [c EXCEPT !.accessCount = MapSet(@, key, @[key] + 1)]]
    ELSE [found |-> FALSE, value |-> EmptyString, cache |-> c]

\* an eviction that takes any key: the faulty variant the formula of C22 is
\* tried against
CacheVictimsAny(c) ==
  IF DOMAIN c.accessCount = {} THEN { EmptyString } ELSE DOMAIN c.accessCount

\* Cache.evict: the keys the loop may end on, one of the least accessed (the
\* range order decides among equals); with no counter at all it is ""
CacheVictims(c) ==
  IF DOMAIN c.accessCount = {} THEN { EmptyString }
  ELSE { k \in DOMAIN c.accessCount :
           \A o \in DOMAIN c.accessCount : c.accessCount[k] <= c.accessCount[o] }

\* an eviction that forgets the counter and keeps the entry: the faulty
\* variant the formula of C21 is tried against
CacheEvictCounterOnly(c, leastAccessed) ==
  [c EXCEPT !.accessCount = MapDelete(@, leastAccessed)]

CacheEvict(c, leastAccessed) ==
  [c EXCEPT !.entries = MapDelete(@, leastAccessed),
            !.accessCount = MapDelete(@, leastAccessed)]

CacheFull(c) == Cardinality(DOMAIN c.entries) >= c.maxSize

\* the end of Cache.Set
CacheInsert(c, key, value) ==
  [c EXCEPT !.entries = MapSet(@, key, value), !.accessCount = MapSet(@, key, 1)]

\* Cache.Set, with the key evict() picks when the cache is at capacity
CacheSet(c, key, value, leastAccessed) ==
  CacheInsert(IF CacheFull(c) THEN CacheEvict(c, leastAccessed) ELSE c, key, value)

(***************************************************************************)
(* Engine state.                                                           *)
(***************************************************************************)
VARIABLES
  memTable,     \* LSMTree.memTable: the write buffer
  ssTables,     \* LSMTree.ssTables: the segment registry, oldest first
  files,        \* the files of the data directory: path -> content
  cache,        \* LSMTree.cache
  mutex,        \* LSMTree.mutex: "unlocked" or "locked" (held for writing)
  pc,           \* where the client is: idle, or inside a call that has not returned
  compactions,  \* triggerCompaction goroutines started and not yet run
  clock,        \* the timestamp of the newest segment file
  budget,       \* the number of Set calls the clients still make
  phase,        \* history: "Fresh" (engine just created), "Recovered" (one
                \* Recover has returned since), "RecoveredAgain" (two or more
                \* have, and nothing else) or "Active" (serving)
  ret,          \* history: the error of the last call that returned
  lastSet,      \* history: key -> value of the last successful Set since the engine was created
  snap,         \* history: what Get and List gave when the process was last stopped,
                \* and the phase it was stopped in
  writing,      \* a buffer on its way to disk by itself: the entries handed to
                \* WAL.Log and to the loop of NewSSTable so far, and what that
                \* loop has written (data, bloomFilter, index)
  calls         \* concurrent clients: for each the call it is in and the
                \* statement of the call it has reached

vars == << memTable, ssTables, files, cache, mutex, pc, compactions, clock,
           budget, phase, ret, lastSet, snap, writing, calls >>

Nil == "nil"
wal == NewWAL(dataDir)
Idle == [op |-> "idle", key |-> EmptyString, at |-> "idle"]

\* the fields of LSMTree the operations work on, with the disk and the clock
Engine ==
  [memTable |-> memTable, ssTables |-> ssTables, fs |-> files, cache |-> cache,
   compactions |-> compactions, clock |-> clock]

\* sync.RWMutex is not reentrant: a held write lock excludes every other
\* Lock and RLock, the holder's own included
CanLock(m) == m = "unlocked"
CanRLock(m) == m # "locked"

\* time.Now().UnixNano(): later than the timestamp of every file written so far
Now(e) == e.clock + 1

(***************************************************************************)
(* Engine operations, as functions of the engine state.  `leastAccessed`   *)
(* is the key Cache.evict ends on and `order` the order in which the range *)
(* loop of NewSSTable visits the buffer; the actions choose both.          *)
(***************************************************************************)
\* a flush that also truncates the log: the variant the formula of C15 is
\* tried against
flushedClearingWAL(e, r) ==
  IF ~r.ok THEN [err |-> "failed to create SSTable", e |-> e]
  ELSE [err |-> Nil,
        e |-> [e EXCEPT !.fs = WALClear(r.fs, wal),
                        !.clock = Now(e),
                        !.ssTables = Append(@, r.ssTable),
                        !.memTable = NewMemTable,
                        !.compactions = @ + 1]]

\* LSMTree.flushMemTable after NewSSTable returned r
flushed(e, r) ==
  IF ~r.ok THEN [err |-> "failed to create SSTable", e |-> e]
  ELSE [err |-> Nil,
        e |-> [e EXCEPT !.fs = r.fs,
                        !.clock = Now(e),
                        !.ssTables = Append(@, r.ssTable),
                        !.memTable = NewMemTable,
                        !.compactions = @ + 1]]

\* LSMTree.flushMemTable
flushMemTable(e, order) ==
  flushed(e, NewSSTable(e.fs, dataDir, e.memTable, order, Now(e)))

\* LSMTree.Set once flushMemTable returned f
SetFlushed(f) ==
  IF f.err # Nil THEN [err |-> "failed to flush memtable", e |-> f.e] ELSE f

\* LSMTree.Set after the buffer and the cache were updated
SetInserted(e, order) ==
  IF MemTableSize(e.memTable) >= memTableSizeThreshold
    THEN SetFlushed(flushMemTable(e, order))
    ELSE [err |-> Nil, e |-> e]

\* LSMTree.Set after wal.Log returned logged
SetLogged(e, logged, key, value, leastAccessed, order) ==
  IF ~logged.ok THEN [err |-> "failed to log to WAL", e |-> e]
  ELSE SetInserted([e EXCEPT !.fs = logged.fs,
                             !.memTable = MemTableSet(@, key, value),
                             !.cache = CacheSet(@, key, value, leastAccessed)],
                   order)

\* LSMTree.Set between Lock and Unlock
SetLocked(e, key, value, leastAccessed, order) ==
  SetLogged(e, WALLog(e.fs, wal, key, value), key, value, leastAccessed, order)

\* the body of the loop of LSMTree.Get over the segments: the first
\* non-empty value ends it (found), an error too
GetFromSSTable(r) ==
  IF ~r.ok THEN [ok |-> FALSE, value |-> EmptyString, found |-> TRUE]
  ELSE [ok |-> TRUE, value |-> r.value, found |-> r.value # EmptyString]

\* the loop of LSMTree.Get over the segments, from index i down to 1
RECURSIVE GetFromSSTables(_, _, _, _)
GetFromSSTables(fs, tables, i, key) ==
  IF i = 0 THEN [ok |-> TRUE, value |-> EmptyString, found |-> FALSE]
  ELSE IF GetFromSSTable(SSTableGet(fs, tables[i], key)).found
    THEN GetFromSSTable(SSTableGet(fs, tables[i], key))
    ELSE GetFromSSTables(fs, tables, i - 1, key)

\* LSMTree.Get after the loop over the segments gave r
GetSearched(e, r, key, leastAccessed) ==
  IF ~r.ok
    THEN [value |-> EmptyString, err |-> "failed to get value from SSTable",
          cache |-> e.cache]
  ELSE IF r.value # EmptyString
    THEN [value |-> r.value, err |-> Nil,
          cache |-> CacheSet(e.cache, key, r.value, leastAccessed)]
  ELSE [value |-> EmptyString, err |-> Nil, cache |-> e.cache]

\* LSMTree.Get after cache.Get returned hit
GetLooked(e, hit, key, leastAccessed) ==
  IF hit.found THEN [value |-> hit.value, err |-> Nil, cache |-> hit.cache]
  ELSE IF MemTableHas(e.memTable, key)
    THEN [value |-> e.memTable[key], err |-> Nil,
          cache |-> CacheSet(e.cache, key, e.memTable[key], leastAccessed)]
  ELSE GetSearched(e, GetFromSSTables(e.fs, e.ssTables, Len(e.ssTables), key),
                   key, leastAccessed)

\* LSMTree.Get between RLock and RUnlock: value, error and the cache after it
GetLocked(e, key, leastAccessed) ==
  GetLooked(e, CacheGet(e.cache, key), key, leastAccessed)

\* the body of the loop of LSMTree.List over the segments: a key already in
\* result is kept
ListFromSSTable(result, entries) ==
  [k \in (DOMAIN result) \cup { x \in DOMAIN entries : entries[x] # EmptyString }
     |-> IF k \in DOMAIN result THEN result[k] ELSE entries[k]]

\* the loop of LSMTree.List over the segments, from index i down to 1
RECURSIVE ListFromSSTables(_, _, _, _)
ListFromSSTables(fs, tables, i, result) ==
  IF i = 0 THEN [ok |-> TRUE, entries |-> result]
  ELSE IF ~SSTableList(fs, tables[i]).ok THEN [ok |-> FALSE, entries |-> EmptyMap]
  ELSE ListFromSSTables(fs, tables, i - 1,
                        ListFromSSTable(result, SSTableList(fs, tables[i]).entries))

\* the end of LSMTree.List
Listed(r) ==
  IF r.ok THEN [entries |-> r.entries, err |-> Nil]
  ELSE [entries |-> EmptyMap, err |-> "failed to list entries from SSTable"]

\* LSMTree.List between RLock and RUnlock: first the live entries of the buffer
ListLocked(e) ==
  Listed(ListFromSSTables(e.fs, e.ssTables, Len(e.ssTables),
           [k \in { x \in DOMAIN e.memTable : e.memTable[x] # EmptyString }
              |-> e.memTable[k]]))

\* LSMTree.Recover after wal.Recover returned entries
Replayed(e, entries) ==
  [err |-> Nil,
   e |-> [e EXCEPT
            !.memTable = [k \in (DOMAIN @) \cup (DOMAIN entries)
                            |-> IF k \in DOMAIN entries THEN entries[k] ELSE @[k]],
            !.fs = IF DOMAIN entries # {} THEN WALClear(@, wal) ELSE @]]

\* LSMTree.Recover between Lock and Unlock
RecoverLocked(e) == Replayed(e, WALRecover(e.fs, wal))

\* the merge loop of LSMTree.compactSSTables over the two lists: the entries
\* of the second overwrite those of the first
Merged(l1, l2) ==
  [ok |-> l1.ok /\ l2.ok,
   entries |-> [k \in (DOMAIN l1.entries) \cup (DOMAIN l2.entries)
                  |-> IF k \in DOMAIN l2.entries THEN l2.entries[k] ELSE l1.entries[k]]]

MergedEntries(fs, ssTable1, ssTable2) ==
  Merged(SSTableList(fs, ssTable1), SSTableList(fs, ssTable2))

\* the end of LSMTree.compactSSTables: the path of the compacted file is
\* handed to NewSSTable as its directory
compacted(e, merged, order) ==
  IF ~merged.ok THEN [ok |-> FALSE, fs |-> e.fs, ssTable |-> NoSSTable]
  ELSE NewSSTable(e.fs, Join(dataDir, CompactedName(Now(e))), merged.entries, order,
                  Now(e))

\* LSMTree.compactSSTables
compactSSTables(e, ssTable1, ssTable2, order) ==
  compacted(e, MergedEntries(e.fs, ssTable1, ssTable2), order)

\* os.Remove
Remove(fs, path) == MapDelete(fs, path)

\* a compaction that goes on after compactSSTables failed: the faulty variant
\* the formulas of C17 and C18 are tried against
CompactedAnyway(e, r) ==
  [e EXCEPT !.ssTables = << r.ssTable >> \o SubSeq(@, 3, Len(@)),
            !.clock = Now(e),
            !.fs = Remove(Remove(r.fs, e.ssTables[1].filePath),
                          e.ssTables[2].filePath)]

\* LSMTree.triggerCompaction after compactSSTables returned r
Compacted(e, r) ==
  IF ~r.ok THEN e
  ELSE [e EXCEPT !.ssTables = << r.ssTable >> \o SubSeq(@, 3, Len(@)),
                 !.clock = Now(e),
                 !.fs = Remove(Remove(r.fs, e.ssTables[1].filePath),
                               e.ssTables[2].filePath)]

\* LSMTree.triggerCompaction between Lock and Unlock
triggerCompactionLocked(e, order) ==
  IF Len(e.ssTables) < 2 THEN e
  ELSE Compacted(e, compactSSTables(e, e.ssTables[1], e.ssTables[2], order))

\* the end of LSMTree.Delete: l.Set returned s
DeleteSet(s) ==
  [at |-> "returned",
   err |-> IF s.err # Nil THEN "failed to mark key as deleted" ELSE Nil,
   wrote |-> TRUE, e |-> s.e]

\* LSMTree.Delete after l.Get returned g: l.Set then asks for the write lock
DeleteGot(e, m, g, key, leastAccessed, order) ==
  IF g.err # Nil
    THEN [at |-> "returned", err |-> "failed to check key existence",
          wrote |-> FALSE, e |-> [e EXCEPT !.cache = g.cache]]
  ELSE IF g.value = EmptyString
    THEN [at |-> "returned", err |-> "key not found", wrote |-> FALSE,
          e |-> [e EXCEPT !.cache = g.cache]]
  ELSE IF ~CanLock(m)
    THEN [at |-> "Set.Lock", err |-> Nil, wrote |-> FALSE,
          e |-> [e EXCEPT !.cache = g.cache]]
  ELSE DeleteSet(SetLocked([e EXCEPT !.cache = g.cache], key, EmptyString,
                           leastAccessed, order))

\* LSMTree.Delete after its Lock, the mutex being in state m: where the call
\* is afterwards ("returned", or the lock it waits for), its error and the
\* engine state.  l.Get first asks for the read lock
DeleteLocked(e, m, key, leastAccessed1, leastAccessed2, order) ==
  IF ~CanRLock(m) THEN [at |-> "Get.RLock", err |-> Nil, wrote |-> FALSE, e |-> e]
  ELSE DeleteGot(e, m, GetLocked(e, key, leastAccessed1), key, leastAccessed2, order)

(***************************************************************************)
(* What a Get(key) and a List() return in the current state.               *)
(***************************************************************************)
GetValue(key) == GetLocked(Engine, key, EmptyString).value
ListValue == ListLocked(Engine).entries

(***************************************************************************)
(* Actions.                                                                *)
(***************************************************************************)
\* the keys Cache.evict may remove in a Cache.Set on c
Evictions(c) == IF CacheFull(c) THEN CacheVictims(c) ELSE { EmptyString }
\* the orders in which a flush following Set(key, ...) may write the buffer
FlushOrders(m, key) ==
  IF Cardinality((DOMAIN m) \cup {key}) >= memTableSizeThreshold
    THEN IterationOrders((DOMAIN m) \cup {key})
    ELSE { << >> }

Install(e) ==
  /\ memTable' = e.memTable
  /\ ssTables' = e.ssTables
  /\ files' = e.fs
  /\ cache' = e.cache
  /\ compactions' = e.compactions
  /\ clock' = e.clock

\* NewSSTable before its loop: nothing visited, nothing written
NothingWritten ==
  [entries |-> EmptyMap,
   acc |-> [data |-> << >>, bloomFilter |-> NewBloomFilter, index |-> EmptyMap]]

\* the goroutines that call the engine concurrently, and the values they set
Clients == { "c1", "c2" }
StepValues == { EmptyString, <<"x">> }
NoCall ==
  [op |-> "idle", key |-> EmptyString, value |-> EmptyString, at |-> "idle",
   err |-> Nil]

NoSnap == [taken |-> FALSE, get |-> EmptyMap, list |-> EmptyMap, after |-> "Fresh"]

\* cli.Run calls Recover right after NewLSMTree: an engine reopened on a
\* used data directory serves no other call before its Recover
Serving == ~(phase = "Fresh" /\ snap.taken)

\* NewLSMTree(dataDir) on an empty data directory
Created ==
  /\ memTable = NewMemTable
  /\ ssTables = << >>
  /\ files = EmptyMap
  /\ cache = NewCache(cacheMaxSize)
  /\ mutex = "unlocked"
  /\ pc = Idle
  /\ compactions = 0
  /\ clock = 0
  /\ phase = "Fresh"
  /\ ret = Nil
  /\ lastSet = EmptyMap
  /\ snap = NoSnap
  /\ writing = NothingWritten
  /\ calls = [c \in Clients |-> NoCall]

Init == Created /\ budget = MaxWrites
InitRun == Created /\ budget = MaxRunWrites

\* Set returns r
SetReturns(r, key, value) ==
  /\ Install(r.e)
  /\ ret' = r.err
  /\ lastSet' = IF r.err = Nil THEN MapSet(lastSet, key, value) ELSE lastSet

\* LSMTree.Set(key, value)
Set(key, value) ==
  /\ pc = Idle
  /\ Serving
  /\ CanLock(mutex)
  /\ budget > 0
  /\ \E leastAccessed \in Evictions(cache), order \in FlushOrders(memTable, key) :
       SetReturns(SetLocked(Engine, key, value, leastAccessed, order), key, value)
  /\ budget' = budget - 1
  /\ phase' = "Active"
  /\ snap' = NoSnap
  /\ UNCHANGED << mutex, pc >>
  /\ UNCHANGED << writing, calls >>

\* Get returns r
GetReturns(r) ==
  /\ cache' = r.cache
  /\ ret' = r.err

\* LSMTree.Get(key)
Get(key) ==
  /\ pc = Idle
  /\ Serving
  /\ CanRLock(mutex)
  /\ key \in DOMAIN cache.accessCount => cache.accessCount[key] < MaxCount
  /\ \E leastAccessed \in Evictions(cache) :
       GetReturns(GetLocked(Engine, key, leastAccessed))
  /\ phase' = "Active"
  /\ snap' = NoSnap
  /\ UNCHANGED << memTable, ssTables, files, mutex, pc, compactions, clock,
                  budget, lastSet >>
  /\ UNCHANGED << writing, calls >>

\* Delete has come to r: it returns, or waits for the lock with the write
\* lock held
DeleteReturns(r, key) ==
  /\ Install(r.e)
  /\ IF r.at = "returned"
       THEN /\ mutex' = "unlocked"
            /\ pc' = Idle
            /\ ret' = r.err
       ELSE /\ mutex' = "locked"
            /\ pc' = [op |-> "Delete", key |-> key, at |-> r.at]
            /\ ret' = ret
  /\ budget' = IF r.wrote THEN budget - 1 ELSE budget
  /\ lastSet' = IF r.wrote /\ r.err = Nil THEN MapSet(lastSet, key, EmptyString)
                ELSE lastSet

\* LSMTree.Delete(key)
Delete(key) ==
  /\ pc = Idle
  /\ Serving
  /\ CanLock(mutex)
  /\ budget > 0
  /\ \E leastAccessed1 \in Evictions(cache) :
       \E leastAccessed2 \in Evictions(GetLocked(Engine, key, leastAccessed1).cache),
          order \in FlushOrders(memTable, key) :
         DeleteReturns(
           DeleteLocked(Engine, "locked", key, leastAccessed1, leastAccessed2, order),
           key)
  /\ phase' = "Active"
  /\ snap' = NoSnap
  /\ UNCHANGED << writing, calls >>

\* LSMTree.List()
List ==
  /\ pc = Idle
  /\ Serving
  /\ CanRLock(mutex)
  /\ ret' = ListLocked(Engine).err
  /\ phase' = "Active"
  /\ snap' = NoSnap
  /\ UNCHANGED << memTable, ssTables, files, cache, mutex, pc, compactions, clock,
                  budget, lastSet >>
  /\ UNCHANGED << writing, calls >>

\* Recover returns r
RecoverReturns(r) ==
  /\ Install(r.e)
  /\ ret' = r.err

\* LSMTree.Recover(), called as cli.Run calls it: on an engine that has
\* served no other call yet
Recover ==
  /\ pc = Idle
  /\ CanLock(mutex)
  /\ phase # "Active"
  /\ RecoverReturns(RecoverLocked(Engine))
  /\ phase' = IF phase = "Fresh" THEN "Recovered" ELSE "RecoveredAgain"
  /\ snap' = NoSnap
  /\ UNCHANGED << mutex, pc, budget, lastSet >>
  /\ UNCHANGED << writing, calls >>

\* the orders in which NewSSTable may write the merged entries
CompactionOrders(e) ==
  IF Len(e.ssTables) < 2 THEN { << >> }
  ELSE IterationOrders(DOMAIN MergedEntries(e.fs, e.ssTables[1], e.ssTables[2]).entries)

\* one goroutine started by flushMemTable runs LSMTree.triggerCompaction
triggerCompaction ==
  /\ compactions > 0
  /\ CanLock(mutex)
  /\ \E order \in CompactionOrders(Engine) :
       Install([triggerCompactionLocked(Engine, order) EXCEPT !.compactions = @ - 1])
  /\ snap' = NoSnap
  /\ UNCHANGED << mutex, pc, budget, phase, ret, lastSet >>
  /\ UNCHANGED << writing, calls >>

\* the process stops (exit, kill or crash, its goroutines with it) and is
\* started again on the same data directory: NewLSMTree(dataDir).  snap
\* keeps what the last engine that served gave; an engine stopped before its
\* Recover has changed nothing
Restart ==
  /\ snap' = IF phase = "Fresh" THEN snap
             ELSE [taken |-> TRUE, get |-> [k \in Keys |-> GetValue(k)],
                   list |-> ListValue, after |-> phase]
  /\ memTable' = NewMemTable
  /\ ssTables' = << >>
  /\ cache' = NewCache(cacheMaxSize)
  /\ mutex' = "unlocked"
  /\ pc' = Idle
  /\ compactions' = 0
  /\ lastSet' = EmptyMap
  /\ phase' = "Fresh"
  /\ ret' = Nil
  /\ UNCHANGED << files, clock, budget >>
  /\ UNCHANGED << writing, calls >>

\* the steps of one process run
Run ==
  \/ \E key \in Keys, value \in Values : Set(key, value)
  \/ \E key \in Keys : Get(key)
  \/ \E key \in Keys : Delete(key)
  \/ List
  \/ Recover
  \/ triggerCompaction

Next ==
  \/ Run
  \/ Restart

\* the engine over any number of process runs on one data directory
Spec == Init /\ [][Next]_vars
\* a single process run
RunSpec == InitRun /\ [][Run]_vars
\* a single process run under fair scheduling: a started compaction goroutine
\* that can take the lock eventually runs; a call that is not blocked returns
\* within its step
FairSpec == RunSpec /\ WF_vars(triggerCompaction)

(***************************************************************************)
(* What the files say, read directly: the entry lines of a key in a file   *)
(* and the value of the last of them.                                      *)
(***************************************************************************)
FileData(fs, path) == IF FileExists(fs, path) THEN fs[path] ELSE << >>

EntryLines(data, k) ==
  { i \in 1..Len(ScanLines(data)) :
      /\ Len(SplitN2(ScanLines(data)[i])) = 2
      /\ SplitN2(ScanLines(data)[i])[1] = k }

HasLine(data, k) == EntryLines(data, k) # {}

LastLineValue(data, k) ==
  SplitN2(ScanLines(data)[CHOOSE i \in EntryLines(data, k) :
                            \A j \in EntryLines(data, k) : j <= i])[2]

\* the segments of the registry that hold key k, by position (1 is the oldest)
SegmentsWith(k) ==
  { i \in 1..Len(ssTables) : HasLine(FileData(files, ssTables[i].filePath), k) }

\* the value of k in the newest segment that holds it (tombstones included)
NewestSegmentValue(k) ==
  LastLineValue(
    FileData(files, ssTables[CHOOSE i \in SegmentsWith(k) :
                               \A j \in SegmentsWith(k) : j <= i].filePath), k)

\* the keys written in the buffer or in a segment
WrittenKeys == { k \in Keys : k \in DOMAIN memTable \/ SegmentsWith(k) # {} }

\* the most recent write of key k across buffer and segments
MostRecent(k) == IF k \in DOMAIN memTable THEN memTable[k] ELSE NewestSegmentValue(k)

\* the write-ahead log file as it is on disk
WALData == FileData(files, wal.filePath)

(***************************************************************************)
(* C1.  Read-your-writes without crash: after any sequence of Set calls in *)
(* one process run (tombstone writes, flushes and cache evictions          *)
(* included) Get(k) returns the last value written for k, the empty string *)
(* when that write was a tombstone.                                        *)
(***************************************************************************)
C1_ReadYourWrites ==
  pc = Idle => \A k \in DOMAIN lastSet : GetValue(k) = lastSet[k]

(***************************************************************************)
(* C2.  Tombstone masking: once the last write of k is the tombstone (the  *)
(* write Set(k, "") that Delete(k) makes), Get(k) returns the empty string *)
(* and List() does not contain k, whatever older segments still hold.      *)
(***************************************************************************)
C2_TombstoneMasks ==
  pc = Idle =>
    \A k \in DOMAIN lastSet :
      lastSet[k] = EmptyString =>
        /\ GetValue(k) = EmptyString
        /\ k \notin DOMAIN ListValue

(***************************************************************************)
(* C3.  List completeness: in every reachable state List() returns exactly *)
(* the keys whose most recent write across buffer and segments is not      *)
(* empty, each with that value.                                            *)
(***************************************************************************)
C3_ListComplete ==
  ListValue = [k \in { x \in WrittenKeys : MostRecent(x) # EmptyString } |-> MostRecent(k)]

(***************************************************************************)
(* C4.  Segment precedence: when two segments of the registry both hold k  *)
(* and k is in neither buffer nor cache, Get(k) and List() give the value  *)
(* of the newer segment, also when that value is the tombstone.            *)
(***************************************************************************)
C4_NewerSegmentWins ==
  \A k \in Keys :
    (/\ Cardinality(SegmentsWith(k)) >= 2
     /\ k \notin DOMAIN memTable
     /\ k \notin DOMAIN cache.entries)
    => /\ GetValue(k) = NewestSegmentValue(k)
       /\ IF NewestSegmentValue(k) = EmptyString
            THEN k \notin DOMAIN ListValue
            ELSE k \in DOMAIN ListValue /\ ListValue[k] = NewestSegmentValue(k)

(***************************************************************************)
(* C5.  WAL round trip: a restart followed by Recover gives, for every key *)
(* and for List(), what the engine gave just before the restart.           *)
(***************************************************************************)
C5_RoundTrip ==
  [][(Recover /\ phase = "Fresh" /\ snap.taken)
       => /\ \A k \in Keys : GetValue(k)' = snap.get[k]
          /\ ListValue' = snap.list]_vars

(***************************************************************************)
(* C6.  Recover replays the WAL into the buffer: after a Recover the       *)
(* buffer holds, for every key with a line in the WAL, the value of the    *)
(* key's last line (a tombstone as the empty value); when a line was       *)
(* replayed the WAL file has length zero; on a reopened engine Get(k) then *)
(* gives that value.                                                       *)
(***************************************************************************)
C6_RecoverReplays ==
  [][Recover
       => /\ ret' = Nil
          /\ \A k \in Keys :
               HasLine(WALData, k)
                 => /\ k \in DOMAIN memTable'
                    /\ memTable'[k] = LastLineValue(WALData, k)
                    /\ WALData' = << >>
                    /\ phase = "Fresh" => GetValue(k)' = LastLineValue(WALData, k)]_vars

\* a reopened engine has recovered a logged value: Get gives it, the log is empty
C6_Recovered ==
  /\ phase = "Recovered"
  /\ FileExists(files, wal.filePath)
  /\ WALData = << >>
  /\ \E k \in Keys : k \in DOMAIN memTable /\ GetValue(k) = <<"x">>

(***************************************************************************)
(* C7.  Idempotent recovery: a Recover that directly follows a Recover on  *)
(* the same engine replays no entry and leaves buffer, WAL, segment        *)
(* registry and cache as they are.                                         *)
(***************************************************************************)
C7_RecoverIdempotent ==
  [][(Recover /\ phase # "Fresh")
       => /\ \A k \in Keys : ~HasLine(WALData, k)
          /\ UNCHANGED << memTable, files, ssTables, cache >>]_vars

\* Recover has run a second time on an engine whose first Recover replayed entries
C7_RecoveredTwice ==
  /\ phase = "RecoveredAgain"
  /\ memTable # EmptyMap

(***************************************************************************)
(* C8.  Delete(k) of a key whose effective value is empty returns the      *)
(* error "key not found", appends nothing to the WAL and changes neither   *)
(* the buffer nor the segment registry.                                    *)
(***************************************************************************)
C8_DeleteAbsent ==
  [][\A k \in Keys :
       (Delete(k) /\ GetValue(k) = EmptyString)
         => /\ pc' = Idle
            /\ ret' = "key not found"
            /\ UNCHANGED << files, memTable, ssTables >>]_vars

(***************************************************************************)
(* C9.  Every engine operation terminates: under fair scheduling a call    *)
(* that has started eventually returns; none waits forever for the engine  *)
(* lock.                                                                   *)
(***************************************************************************)
C9_CallsReturn == (pc # Idle) ~> (pc = Idle)

(***************************************************************************)
(* C10.  Compaction result: a compaction that runs with the registry       *)
(* [S0, S1, rest] leaves [Sc, rest], Sc holding the live entries of S0 and *)
(* S1 with S1 winning; the files of S0 and S1 are gone and Sc's file is    *)
(* the one file that stands for them.                                      *)
(***************************************************************************)
LiveEntries(data) ==
  [k \in { x \in Keys : HasLine(data, x) /\ LastLineValue(data, x) # EmptyString }
     |-> LastLineValue(data, k)]

C10_CompactionResult ==
  [][(triggerCompaction /\ Len(ssTables) >= 2)
       => /\ Len(ssTables') = Len(ssTables) - 1
          /\ SubSeq(ssTables', 2, Len(ssTables')) = SubSeq(ssTables, 3, Len(ssTables))
          /\ ~FileExists(files', ssTables[1].filePath)
          /\ ~FileExists(files', ssTables[2].filePath)
          /\ FileExists(files', ssTables'[1].filePath)
          /\ Cardinality(DOMAIN files') = Cardinality(DOMAIN files) - 1
          /\ LiveEntries(files'[ssTables'[1].filePath])
               = [k \in DOMAIN LiveEntries(files[ssTables[1].filePath])
                          \cup DOMAIN LiveEntries(files[ssTables[2].filePath])
                    |-> IF k \in DOMAIN LiveEntries(files[ssTables[2].filePath])
                          THEN LiveEntries(files[ssTables[2].filePath])[k]
                          ELSE LiveEntries(files[ssTables[1].filePath])[k]]]_vars

(***************************************************************************)
(* A buffer on its way to disk by itself: each entry is appended to the    *)
(* log by WAL.Log and written to a segment file by the loop of NewSSTable, *)
(* which visits every key of the buffer once.                              *)
(***************************************************************************)
WriteEntry(key, value) ==
  /\ key \notin DOMAIN writing.entries
  /\ Cardinality(DOMAIN writing.entries) < MaxEntries
  /\ writing' = [entries |-> MapSet(writing.entries, key, value),
                 acc |-> SSTableWriteEntry(writing.acc, key, value)]
  /\ files' = WALLog(files, wal, key, value).fs
  /\ UNCHANGED << memTable, ssTables, cache, mutex, pc, compactions, clock,
                  budget, phase, ret, lastSet, snap, calls >>

SegmentNext == \E key \in SegKeys, value \in SegValues : WriteEntry(key, value)

SegmentSpec == InitRun /\ [][SegmentNext]_vars

\* the segment NewSSTable returns for what has been written, and the files then
WrittenSSTable ==
  SSTableCreated(files, Join(dataDir, SSTableName(Now(Engine))), writing.acc)

(***************************************************************************)
(* C11.  Filter soundness: every key added to a filter is reported as      *)
(* possibly present after any further adds; so the filter of a segment     *)
(* reports every key written into the segment.                             *)
(***************************************************************************)
C11_FilterSound ==
  \A k \in DOMAIN writing.entries :
    /\ BloomMightContain(writing.acc.bloomFilter, k)
    /\ BloomMightContain(WrittenSSTable.ssTable.bloomFilter, k)

\* three keys have been added, "a" among them but not last
C11_ThreeAdded ==
  /\ Cardinality(DOMAIN writing.entries) = 3
  /\ <<"a">> \in DOMAIN writing.entries
  /\ <<"b">> \in DOMAIN writing.entries
  /\ writing.acc.index[<<"a">>] < writing.acc.index[<<"b">>]

(***************************************************************************)
(* Concurrent clients.  Each call advances statement by statement; the     *)
(* engine lock is held for writing by the client inside Set or Delete      *)
(* (mutex = "locked") and for reading by the clients inside Get.           *)
(***************************************************************************)
\* the clients that hold the read lock
Readers == { c \in Clients : calls[c].op = "Get" }
\* l.mutex.Lock() returns only when nobody holds the lock
\* a write lock that excludes nobody: the faulty variant the formula of C20 is
\* tried against
LockNotExclusive == TRUE

CanLockNow == CanLock(mutex) /\ Readers = {}

\* what a step of a call leaves alone besides the engine fields it names
CallFrame == UNCHANGED << pc, phase, snap, writing >>

\* Set: l.mutex.Lock()
SetLock(c, key, value) ==
  /\ calls[c] = NoCall
  /\ CanLockNow
  /\ budget > 0
  /\ budget' = budget - 1
  /\ mutex' = "locked"
  /\ calls' = [calls EXCEPT ![c] = [op |-> "Set", key |-> key, value |-> value,
                                    at |-> "wal.Log", err |-> Nil]]
  /\ CallFrame
  /\ UNCHANGED << memTable, ssTables, files, cache, compactions, clock, ret, lastSet >>

\* Set: l.wal.Log(key, value); the file may fail to open, and then nothing
\* is written
SetLog(c) ==
  /\ calls[c].op = "Set" /\ calls[c].at = "wal.Log"
  /\ \E opens \in BOOLEAN :
       IF opens /\ WALLog(files, wal, calls[c].key, calls[c].value).ok
         THEN /\ files' = WALLog(files, wal, calls[c].key, calls[c].value).fs
              /\ calls' = [calls EXCEPT ![c].at = "memTable.Set"]
         ELSE /\ files' = files
              /\ calls' = [calls EXCEPT ![c].at = "Unlock",
                                        ![c].err = "failed to log to WAL"]
  /\ CallFrame
  /\ UNCHANGED << memTable, ssTables, cache, mutex, compactions, clock, budget,
                  ret, lastSet >>

\* Set: l.memTable.Set(key, value)
SetMemTable(c) ==
  /\ calls[c].op = "Set" /\ calls[c].at = "memTable.Set"
  /\ memTable' = MemTableSet(memTable, calls[c].key, calls[c].value)
  /\ calls' = [calls EXCEPT ![c].at = "cache.Set"]
  /\ CallFrame
  /\ UNCHANGED << ssTables, files, cache, mutex, compactions, clock, budget, ret,
                  lastSet >>

\* Set: l.cache.Set(key, value)
SetCache(c) ==
  /\ calls[c].op = "Set" /\ calls[c].at = "cache.Set"
  /\ \E leastAccessed \in Evictions(cache) :
       cache' = CacheSet(cache, calls[c].key, calls[c].value, leastAccessed)
  /\ calls' = [calls EXCEPT ![c].at = "flushMemTable"]
  /\ CallFrame
  /\ UNCHANGED << memTable, ssTables, files, mutex, compactions, clock, budget, ret,
                  lastSet >>

\* the threshold test of Set has been made with result r
SetFlushReturns(c, r) ==
  /\ Install(r.e)
  /\ calls' = [calls EXCEPT ![c].at = "Unlock", ![c].err = r.err]

\* Set: the threshold test and l.flushMemTable()
SetFlush(c) ==
  /\ calls[c].op = "Set" /\ calls[c].at = "flushMemTable"
  /\ \E order \in FlushOrders(memTable, calls[c].key) :
       SetFlushReturns(c, SetInserted(Engine, order))
  /\ CallFrame
  /\ UNCHANGED << mutex, budget, ret, lastSet >>

\* Set: return, with the deferred l.mutex.Unlock()
SetUnlock(c) ==
  /\ calls[c].op = "Set" /\ calls[c].at = "Unlock"
  /\ mutex' = "unlocked"
  /\ ret' = calls[c].err
  /\ lastSet' = IF calls[c].err = Nil
                  THEN MapSet(lastSet, calls[c].key, calls[c].value)
                  ELSE lastSet
  /\ calls' = [calls EXCEPT ![c] = NoCall]
  /\ CallFrame
  /\ UNCHANGED << memTable, ssTables, files, cache, compactions, clock, budget >>

\* Get: l.mutex.RLock()
GetRLock(c, key) ==
  /\ calls[c] = NoCall
  /\ CanRLock(mutex)
  /\ key \in DOMAIN cache.accessCount => cache.accessCount[key] < MaxCount
  /\ calls' = [calls EXCEPT ![c] = [op |-> "Get", key |-> key, value |-> EmptyString,
                                    at |-> "cache.Get", err |-> Nil]]
  /\ CallFrame
  /\ UNCHANGED << memTable, ssTables, files, cache, mutex, compactions, clock,
                  budget, ret, lastSet >>

\* Get: the lookup, the return and the deferred l.mutex.RUnlock()
GetRead(c) ==
  /\ calls[c].op = "Get"
  /\ \E leastAccessed \in Evictions(cache) :
       GetReturns(GetLocked(Engine, calls[c].key, leastAccessed))
  /\ calls' = [calls EXCEPT ![c] = NoCall]
  /\ CallFrame
  /\ UNCHANGED << memTable, ssTables, files, mutex, compactions, clock, budget,
                  lastSet >>

\* Delete: l.mutex.Lock(), then l.Get(key), whose l.mutex.RLock() waits for
\* the write lock the call itself holds
DeleteLock(c, key) ==
  /\ calls[c] = NoCall
  /\ CanLockNow
  /\ budget > 0
  /\ budget' = budget - 1
  /\ mutex' = "locked"
  /\ calls' = [calls EXCEPT ![c] = [op |-> "Delete", key |-> key,
                                    value |-> EmptyString,
                                    at |-> DeleteLocked(Engine, "locked", key,
                                             EmptyString, EmptyString, << >>).at,
                                    err |-> Nil]]
  /\ CallFrame
  /\ UNCHANGED << memTable, ssTables, files, cache, compactions, clock, ret, lastSet >>

\* a compaction goroutine takes the lock
StepCompaction ==
  /\ Readers = {}
  /\ triggerCompaction

StepInit == Created /\ budget = MaxStepWrites

StepNext ==
  \/ \E c \in Clients, key \in Keys, value \in StepValues : SetLock(c, key, value)
  \/ \E c \in Clients : SetLog(c)
  \/ \E c \in Clients : SetMemTable(c)
  \/ \E c \in Clients : SetCache(c)
  \/ \E c \in Clients : SetFlush(c)
  \/ \E c \in Clients : SetUnlock(c)
  \/ \E c \in Clients, key \in Keys : GetRLock(c, key)
  \/ \E c \in Clients : GetRead(c)
  \/ \E c \in Clients, key \in Keys : DeleteLock(c, key)
  \/ StepCompaction

StepSpec == StepInit /\ [][StepNext]_vars

(***************************************************************************)
(* C12.  With concurrent clients a Get(k) that takes the read lock after a *)
(* Set(k, v) has returned, no other write to k in between, returns v; and  *)
(* while a Get reads no Set is part-way through its updates.               *)
(***************************************************************************)
C12_GetSeesReturnedSet ==
  [][\A c \in Clients :
       GetRead(c)
         => /\ \A d \in Clients : calls[d].op # "Set"
            /\ calls[c].key \in DOMAIN lastSet
                 => GetValue(calls[c].key) = lastSet[calls[c].key]]_vars

(***************************************************************************)
(* C13.  A value with commas round-trips: for a key without comma or       *)
(* newline and a value without newline, the line written parses back to    *)
(* the key and the value, so WAL Recover after the Set, and Get and List   *)
(* of the segment created from the buffer, give the value back unchanged.  *)
(***************************************************************************)
C13_ValueRoundTrip ==
  \A k \in DOMAIN writing.entries :
    /\ SplitN2(ScanLines(FormatEntry(k, writing.entries[k]))[1])
         = << k, writing.entries[k] >>
    /\ k \in DOMAIN WALRecover(files, wal)
    /\ WALRecover(files, wal)[k] = writing.entries[k]
    /\ SSTableGet(WrittenSSTable.fs, WrittenSSTable.ssTable, k).value
         = writing.entries[k]
    /\ writing.entries[k] # EmptyString
         => /\ k \in DOMAIN SSTableList(WrittenSSTable.fs, WrittenSSTable.ssTable).entries
            /\ SSTableList(WrittenSSTable.fs, WrittenSSTable.ssTable).entries[k]
                 = writing.entries[k]

(***************************************************************************)
(* C14.  Within one Set the WAL append comes before the buffer insert: at  *)
(* the insert the entry is the last line of the WAL; a Set whose append    *)
(* fails goes on to return that error with buffer, cache and registry      *)
(* unchanged; so every value in the buffer has a line in the WAL.          *)
(***************************************************************************)
Logged(data, k, v) ==
  \E i \in EntryLines(data, k) : SplitN2(ScanLines(data)[i])[2] = v

C14_LogBeforeInsert ==
  [][/\ \A c \in Clients :
          /\ SetMemTable(c)
               => /\ ScanLines(WALData) # << >>
                  /\ SplitN2(ScanLines(WALData)[Len(ScanLines(WALData))])
                       = << calls[c].key, calls[c].value >>
          /\ (SetLog(c) /\ files' = files)
               => /\ calls'[c].at = "Unlock"
                  /\ calls'[c].err = "failed to log to WAL"
                  /\ UNCHANGED << memTable, cache, ssTables >>
          /\ (SetUnlock(c) /\ calls[c].err # Nil)
               => /\ ret' = calls[c].err
                  /\ UNCHANGED << memTable, cache, ssTables >>
     /\ \A k \in DOMAIN memTable' : Logged(WALData', k, memTable'[k])]_vars

\* a Set has returned the WAL error while the buffer holds an earlier entry
C14_FailedAfterInsert ==
  /\ ret = "failed to log to WAL"
  /\ memTable # EmptyMap
  /\ \A c \in Clients : calls[c] = NoCall

(***************************************************************************)
(* C15.  Flush effect: a successful flush appends one segment, holding     *)
(* exactly the entries of the buffer (tombstones included), at the newest  *)
(* end of the registry, replaces the buffer by an empty one, schedules one *)
(* compaction, and leaves the WAL, the cache and the earlier segments as   *)
(* they are.                                                               *)
(***************************************************************************)
C15_FlushEffect ==
  [][\A c \in Clients :
       (/\ SetFlush(c)
        /\ MemTableSize(memTable) >= memTableSizeThreshold
        /\ calls'[c].err = Nil)
         => /\ Len(ssTables') = Len(ssTables) + 1
            /\ SubSeq(ssTables', 1, Len(ssTables)) = ssTables
            /\ \A i \in 1..Len(ssTables) :
                 FileData(files', ssTables[i].filePath)
                   = FileData(files, ssTables[i].filePath)
            /\ ssTables'[Len(ssTables')].filePath \notin DOMAIN files
            /\ Len(ScanLines(FileData(files', ssTables'[Len(ssTables')].filePath)))
                 = Cardinality(DOMAIN memTable)
            /\ \A k \in DOMAIN memTable :
                 /\ HasLine(FileData(files', ssTables'[Len(ssTables')].filePath), k)
                 /\ LastLineValue(FileData(files', ssTables'[Len(ssTables')].filePath), k)
                      = memTable[k]
            /\ memTable' = EmptyMap
            /\ compactions' = compactions + 1
            /\ WALData' = WALData
            /\ cache' = cache]_vars

\* a second flush has just been made, by a Set that has not returned yet
C15_SecondFlush ==
  /\ \E c \in Clients : calls[c].op = "Set" /\ calls[c].at = "Unlock"
  /\ Len(ssTables) = 2
  /\ memTable = EmptyMap
  /\ compactions >= 1

(***************************************************************************)
(* C16.  WAL/buffer correspondence: in every quiescent state of a serving  *)
(* engine the map from each key of the WAL to the value of its last line   *)
(* equals the write buffer.                                                *)
(***************************************************************************)
C16_WALMatchesBuffer ==
  (pc = Idle /\ Serving)
    => memTable = [k \in { x \in Keys : HasLine(WALData, x) }
                     |-> LastLineValue(WALData, k)]

\* Get(k) of the engine e without the cache: the buffer, then the segments
CascadeOf(e, k) ==
  GetLooked(e, [found |-> FALSE, value |-> EmptyString, cache |-> e.cache], k,
            EmptyString).value

CascadeValue(k) == CascadeOf(Engine, k)

(***************************************************************************)
(* C17.  Compaction preserves reads: for every key the value the lookup    *)
(* cascade (buffer, then segments newest to oldest) gives for Get(k), and  *)
(* the result of List(), are the same before and after a compaction step.  *)
(***************************************************************************)
C17_CompactionKeepsReads ==
  [][triggerCompaction
       => \A after \in { Engine' } :
            /\ \A k \in Keys : CascadeOf(after, k) = CascadeValue(k)
            /\ ListLocked(after).entries = ListValue]_vars

\* every compaction goroutine has run, the last one with two segments in the
\* registry, and a key is readable from a segment
C17_CompactedTwoSegments ==
  /\ Len(ssTables) = 2
  /\ compactions = 0
  /\ memTable = EmptyMap
  /\ \E k \in Keys : CascadeValue(k) # EmptyString

\* compactSSTables fails for the two oldest segments, whatever the order in
\* which NewSSTable would write the merged entries
BuildFails ==
  \A order \in CompactionOrders(Engine) :
    ~compactSSTables(Engine, ssTables[1], ssTables[2], order).ok

(***************************************************************************)
(* C18.  Compaction is best-effort: a compaction step whose merged segment *)
(* cannot be built leaves the segment registry and the files of the two    *)
(* oldest segments exactly as they were, and the result the last Set gave  *)
(* to its caller is not changed by it.                                     *)
(***************************************************************************)
C18_BestEffort ==
  [][(triggerCompaction /\ Len(ssTables) >= 2 /\ BuildFails)
       => /\ ssTables' = ssTables
          /\ \A i \in 1..2 :
               /\ FileExists(files', ssTables[i].filePath)
               /\ files'[ssTables[i].filePath] = files[ssTables[i].filePath]
          /\ ret' = ret
          /\ lastSet' = lastSet]_vars

\* both compaction goroutines have run, two segment files are still there
\* and no Set was given an error
C18_FailedCompaction ==
  /\ compactions = 0
  /\ Len(ssTables) = 2
  /\ \A i \in 1..2 : FileExists(files, ssTables[i].filePath)
  /\ ret = Nil
  /\ budget < MaxRunWrites

(***************************************************************************)
(* C19.  Asynchronous compaction does not deadlock: under fair scheduling  *)
(* a compaction goroutine that a flush has started eventually takes the    *)
(* write lock and finishes, so that no started goroutine is left waiting.  *)
(***************************************************************************)
C19_TaskFinishes == (compactions > 0) ~> (compactions = 0)

\* the clients that are inside Set, between Lock and Unlock
Writers == { c \in Clients : calls[c].op = "Set" }

(***************************************************************************)
(* C20.  Concurrent writes linearize consistently in WAL and buffer: at    *)
(* most one Set is between its WAL append and its buffer insert, and the   *)
(* entry a Set inserts is the last line of the WAL at that moment, so the  *)
(* lines of the WAL are in the order of the inserts; whenever no Set is in *)
(* progress, the buffer, and the cache where it holds the key, give for    *)
(* every key of the buffer the value of that key's last WAL line.          *)
(***************************************************************************)
C20_WritesLinearize ==
  [][/\ Cardinality(Writers) <= 1
     /\ \A c \in Clients :
          SetMemTable(c)
            => \A lines \in { ScanLines(WALData) } :
                 /\ Len(lines) >= 1
                 /\ SplitN2(lines[Len(lines)]) = << calls[c].key, calls[c].value >>
                 /\ \A d \in Clients \ {c} : calls[d].op # "Set"
     /\ \A after \in { [writers |-> Writers', memTable |-> memTable',
                        data |-> WALData', entries |-> cache'.entries] } :
          after.writers = {}
            => \A k \in DOMAIN after.memTable :
                 /\ HasLine(after.data, k)
                 /\ after.memTable[k] = LastLineValue(after.data, k)
                 /\ k \in DOMAIN after.entries
                      => after.entries[k] = LastLineValue(after.data, k)]_vars

\* the last two lines of the WAL are two Sets of one key, to different
\* values, made since the last flush; both calls have returned
C20_TwoWriters ==
  /\ Writers = {}
  /\ \E k \in DOMAIN memTable :
       /\ Cardinality({ i \in EntryLines(WALData, k) :
                          i > Len(ScanLines(WALData)) - 2 }) = 2
       /\ SplitN2(ScanLines(WALData)[Len(ScanLines(WALData))])[2]
            # SplitN2(ScanLines(WALData)[Len(ScanLines(WALData)) - 1])[2]
       /\ ret = Nil

(***************************************************************************)
(* The cache on its own: goroutines call Cache.Set and Cache.Get on one    *)
(* cache of capacity 1..MaxCapacity.  Cache.Set holds c.mutex.Lock() from  *)
(* its first statement to its return; Cache.Get holds only c.mutex.RLock() *)
(* while it runs c.accessCount[key]++, a read of the counter followed by a *)
(* write of it, so two readers may be inside the increment together.       *)
(***************************************************************************)
CacheKeys == Keys \cup { <<"c">> }

CacheWriters == { c \in Clients : calls[c].op = "Cache.Set" }
CacheReaders == { c \in Clients : calls[c].op = "Cache.Get" }

\* Cache.Set: c.mutex.Lock()
CacheSetLock(c, key, value) ==
  /\ phase = "Fresh"
  /\ calls[c] = NoCall
  /\ CacheWriters = {} /\ CacheReaders = {}
  /\ calls' = [calls EXCEPT ![c] = [op |-> "Cache.Set", key |-> key, value |-> value,
                                    at |-> "evict", err |-> Nil, count |-> 0,
                                    evicted |-> {}]]
  /\ UNCHANGED << memTable, ssTables, files, cache, mutex, pc, compactions, clock,
                  budget, phase, ret, lastSet, snap, writing >>

\* Cache.Set: the capacity test and c.evict()
CacheSetEvict(c) ==
  /\ calls[c].op = "Cache.Set" /\ calls[c].at = "evict"
  /\ \E leastAccessed \in Evictions(cache) :
       /\ cache' = IF CacheFull(cache) THEN CacheEvict(cache, leastAccessed) ELSE cache
       /\ calls' = [calls EXCEPT ![c].at = "insert",
                                 ![c].evicted = IF CacheFull(cache) THEN { leastAccessed }
                                                ELSE {}]
  /\ UNCHANGED << memTable, ssTables, files, mutex, pc, compactions, clock, budget,
                  phase, ret, lastSet, snap, writing >>

\* Cache.Set: the two assignments, the return and the deferred Unlock
CacheSetInsert(c) ==
  /\ calls[c].op = "Cache.Set" /\ calls[c].at = "insert"
  /\ cache' = CacheInsert(cache, calls[c].key, calls[c].value)
  /\ calls' = [calls EXCEPT ![c] = NoCall]
  /\ UNCHANGED << memTable, ssTables, files, mutex, pc, compactions, clock, budget,
                  phase, ret, lastSet, snap, writing >>

\* Cache.Get: c.mutex.RLock(), the lookup in c.entries and, on a hit, the
\* read of the counter; a miss returns at once
CacheGetLoad(c, key) ==
  /\ phase = "Fresh"
  /\ calls[c] = NoCall
  /\ CacheWriters = {}
  /\ key \in DOMAIN cache.accessCount => cache.accessCount[key] < MaxCount
  /\ calls' = IF key \in DOMAIN cache.entries
                THEN [calls EXCEPT ![c] = [op |-> "Cache.Get", key |-> key,
                                           value |-> cache.entries[key],
                                           at |-> "store", err |-> Nil,
                                           count |-> cache.accessCount[key],
                                           evicted |-> {}]]
                ELSE calls
  /\ UNCHANGED << memTable, ssTables, files, cache, mutex, pc, compactions, clock,
                  budget, phase, ret, lastSet, snap, writing >>

\* Cache.Get: the write of the counter, the return and the deferred RUnlock
CacheGetStore(c) ==
  /\ calls[c].op = "Cache.Get" /\ calls[c].at = "store"
  /\ cache' = [cache EXCEPT !.accessCount = MapSet(@, calls[c].key, calls[c].count + 1)]
  /\ calls' = [calls EXCEPT ![c] = NoCall]
  /\ UNCHANGED << memTable, ssTables, files, mutex, pc, compactions, clock, budget,
                  phase, ret, lastSet, snap, writing >>

\* two readers are inside the map assignment together and the runtime stops
\* the process: "fatal error: concurrent map writes"
CacheFatal ==
  /\ Cardinality(CacheReaders) >= 2
  /\ phase' = "Crashed"
  /\ calls' = [c \in Clients |-> NoCall]
  /\ UNCHANGED << memTable, ssTables, files, cache, mutex, pc, compactions, clock,
                  budget, ret, lastSet, snap, writing >>

CacheInit ==
  /\ \E maxSize \in 1..MaxCapacity : cache = NewCache(maxSize)
  /\ memTable = NewMemTable
  /\ ssTables = << >>
  /\ files = EmptyMap
  /\ mutex = "unlocked"
  /\ pc = Idle
  /\ compactions = 0
  /\ clock = 0
  /\ phase = "Fresh"
  /\ ret = Nil
  /\ lastSet = EmptyMap
  /\ snap = NoSnap
  /\ writing = NothingWritten
  /\ calls = [c \in Clients |-> NoCall]
  /\ budget = 0

CacheNext ==
  \/ \E c \in Clients, key \in CacheKeys, value \in StepValues : CacheSetLock(c, key, value)
  \/ \E c \in Clients : CacheSetEvict(c)
  \/ \E c \in Clients : CacheSetInsert(c)
  \/ \E c \in Clients, key \in CacheKeys : CacheGetLoad(c, key)
  \/ \E c \in Clients : CacheGetStore(c)
  \/ CacheFatal

CacheSpec == CacheInit /\ [][CacheNext]_vars

(***************************************************************************)
(* C21.  Cache capacity is a hard ceiling: whatever Cache.Set and          *)
(* Cache.Get calls have been made, in whatever interleaving, the cache     *)
(* holds at most maxSize entries and the keys with an access count are     *)
(* the keys with an entry.                                                 *)
(***************************************************************************)
C21_CapacityCeiling ==
  /\ Cardinality(DOMAIN cache.entries) <= cache.maxSize
  /\ DOMAIN cache.accessCount = DOMAIN cache.entries

\* a cache of capacity 2 is full after Cache.Set calls, one of its keys has
\* been hit, and a reader is inside Cache.Get
C21_FullAndHit ==
  /\ cache.maxSize = 2
  /\ Cardinality(DOMAIN cache.entries) = 2
  /\ \E k \in DOMAIN cache.accessCount : cache.accessCount[k] > 1
  /\ CacheReaders # {}

(***************************************************************************)
(* C22.  Least-accessed eviction: a Cache.Set(k, v) that finds the cache   *)
(* at capacity removes exactly one key before the insert, a key whose      *)
(* access count is the smallest of all cached keys at that moment; a       *)
(* Cache.Set below capacity removes none; afterwards k is cached with      *)
(* value v and access count 1 and the other keys are as they were.         *)
(***************************************************************************)
C22_LeastAccessedEvicted ==
  [][\A c \in Clients :
       /\ (CacheSetEvict(c) /\ CacheFull(cache))
            => \E victim \in DOMAIN cache.entries :
                 /\ \A o \in DOMAIN cache.accessCount :
                      cache.accessCount[victim] <= cache.accessCount[o]
                 /\ cache'.entries = MapDelete(cache.entries, victim)
                 /\ cache'.accessCount = MapDelete(cache.accessCount, victim)
       /\ (CacheSetEvict(c) /\ ~CacheFull(cache)) => cache' = cache
       /\ CacheSetInsert(c)
            => /\ DOMAIN cache'.entries = (DOMAIN cache.entries) \cup { calls[c].key }
               /\ cache'.entries[calls[c].key] = calls[c].value
               /\ cache'.accessCount[calls[c].key] = 1
               /\ \A o \in (DOMAIN cache.entries) \ { calls[c].key } :
                    /\ cache'.entries[o] = cache.entries[o]
                    /\ cache'.accessCount[o] = cache.accessCount[o]]_vars

\* a Cache.Set on a full cache of capacity 2 has just evicted a key while the
\* key it left had been hit, and is about to insert
C22_EvictedLeast ==
  /\ cache.maxSize = 2
  /\ \E c \in Clients :
       /\ calls[c].op = "Cache.Set" /\ calls[c].at = "insert"
       /\ calls[c].evicted # {}
       /\ calls[c].evicted \cap DOMAIN cache.entries = {}
  /\ \E k \in DOMAIN cache.accessCount : cache.accessCount[k] > 1

(***************************************************************************)
(* C23.  Every cache hit counts once: each Cache.Get(k) that hits leaves   *)
(* the access count of k one higher than it was just before the hit wrote  *)
(* it, also when other readers are inside Cache.Get at the same time.      *)
(***************************************************************************)
C23_HitCountsOnce ==
  [][\A c \in Clients :
       CacheGetStore(c)
         => cache'.accessCount[calls[c].key] = cache.accessCount[calls[c].key] + 1]_vars

(***************************************************************************)
(* C24.  Segment point lookup: for the segment created from the entries    *)
(* written, SSTable.Get(k) gives the value written for every key written   *)
(* and the empty string for every other key, also when the filter reports  *)
(* the other key as possibly present; the offset in the index of a key is  *)
(* the position in the file where the line of that key starts.             *)
(***************************************************************************)
C24_PointLookup ==
  /\ \A k \in DOMAIN writing.entries :
       /\ SSTableGet(WrittenSSTable.fs, WrittenSSTable.ssTable, k).value
            = writing.entries[k]
       /\ SubSeq(writing.acc.data, writing.acc.index[k] + 1,
                 writing.acc.index[k] + Len(FormatEntry(k, writing.entries[k])))
            = FormatEntry(k, writing.entries[k])
  /\ \A k \in SegKeys \ DOMAIN writing.entries :
       SSTableGet(WrittenSSTable.fs, WrittenSSTable.ssTable, k).value = EmptyString

\* the files of the data directory that are segment files
SegmentFiles(fs) == (DOMAIN fs) \ { wal.filePath }

(***************************************************************************)
(* C25.  Segment file lifecycle: after every step each segment of the      *)
(* registry has its file on disk; no step changes the contents of a        *)
(* segment file that exists; and a step removes a segment file only if it  *)
(* is a compaction of the two oldest segments that puts, in their place at *)
(* the head of the registry, a segment whose file holds their merged live  *)
(* entries.                                                                *)
(***************************************************************************)
C25_SegmentFileLifecycle ==
  [][/\ \A i \in 1..Len(ssTables') : FileExists(files', ssTables'[i].filePath)
     /\ \A path \in SegmentFiles(files) :
          /\ FileExists(files', path) => files'[path] = files[path]
          /\ ~FileExists(files', path)
               => /\ Len(ssTables) >= 2
                  /\ path \in { ssTables[1].filePath, ssTables[2].filePath }
                  /\ Len(ssTables') = Len(ssTables) - 1
                  /\ FileExists(files', ssTables'[1].filePath)
                  /\ \A after \in { [fs |-> files', ssTable |-> ssTables'[1]] } :
                       SSTableList(after.fs, after.ssTable).entries
                         = MergedEntries(files, ssTables[1], ssTables[2]).entries]_vars

\* two flushes have written two different segment files, both still on disk
\* and in the registry after the compactions ran
C25_TwoSegmentFiles ==
  /\ Len(ssTables) = 2
  /\ compactions = 0
  /\ Cardinality(SegmentFiles(files)) = 2
  /\ SegmentFiles(files) = { ssTables[1].filePath, ssTables[2].filePath }
  /\ files[ssTables[1].filePath] # files[ssTables[2].filePath]

(***************************************************************************)
(* C26.  Cache transparency: in every reachable state, for every key k,    *)
(* Get(k) of the engine with its cache returns the value that the lookup   *)
(* without the cache (the buffer, then the segments newest to oldest)      *)
(* returns on the same buffer and segments.                                *)
(***************************************************************************)
C26_CacheTransparent ==
  \A k \in Keys : GetValue(k) = CascadeValue(k)

(***************************************************************************)
(* C27.  Get/List agreement: in every quiescent state, for every key k, k  *)
(* is in the result of List() exactly when Get(k) returns a non-empty      *)
(* value, and then List()[k] is that value.                                *)
(***************************************************************************)
C27_GetListAgree ==
  (pc = Idle)
    => \A k \in Keys :
         /\ (k \in DOMAIN ListValue) <=> (GetValue(k) # EmptyString)
         /\ k \in DOMAIN ListValue => ListValue[k] = GetValue(k)

(***************************************************************************)
(* C28.  Recovered data survives a second crash: when the process stops    *)
(* right after a Recover, with no call in between, and is started again,   *)
(* every key that read as non-empty after that Recover reads as the same   *)
(* value after the next Recover.                                           *)
(***************************************************************************)
C28_RecoveredSurvives ==
  [][(Recover /\ phase = "Fresh" /\ snap.taken
        /\ snap.after \in { "Recovered", "RecoveredAgain" })
       => \A k \in Keys :
            snap.get[k] # EmptyString => GetValue(k)' = snap.get[k]]_vars

(***************************************************************************)
(* I/O failures.  The data directory exists, so os.OpenFile in WAL.Log and *)
(* os.Create in NewSSTable fail only for reasons outside the program (a    *)
(* full disk, a permission).  A run with such failures has, besides the    *)
(* steps of Run, Set calls in which one of the two fails.                  *)
(***************************************************************************)
IOCalls == { "wal.Log", "NewSSTable" }

\* LSMTree.Set after the buffer and the cache were updated, when os.Create
\* fails in the flush
SetInsertedNoFile(e) ==
  IF MemTableSize(e.memTable) >= memTableSizeThreshold
    THEN SetFlushed(flushed(e, [ok |-> FALSE, fs |-> e.fs, ssTable |-> NoSSTable]))
    ELSE [err |-> Nil, e |-> e]

\* LSMTree.Set between Lock and Unlock when the I/O call `io` fails
SetFailing(e, key, value, leastAccessed, io) ==
  IF io = "wal.Log"
    THEN SetLogged(e, [ok |-> FALSE, fs |-> e.fs], key, value, leastAccessed, << >>)
    ELSE SetInsertedNoFile([e EXCEPT !.fs = WALLog(e.fs, wal, key, value).fs,
                                     !.memTable = MemTableSet(@, key, value),
                                     !.cache = CacheSet(@, key, value, leastAccessed)])

\* LSMTree.Set(key, value) with a failing I/O call; the flush is reached only
\* when the buffer is at the threshold after the insert
SetFails(key, value, io) ==
  /\ pc = Idle
  /\ Serving
  /\ CanLock(mutex)
  /\ budget > 0
  /\ io = "NewSSTable" => MemTableSize(MemTableSet(memTable, key, value))
                            >= memTableSizeThreshold
  /\ \E leastAccessed \in Evictions(cache) :
       SetReturns(SetFailing(Engine, key, value, leastAccessed, io), key, value)
  /\ budget' = budget - 1
  /\ phase' = "Active"
  /\ snap' = NoSnap
  /\ UNCHANGED << mutex, pc >>
  /\ UNCHANGED << writing, calls >>

FaultInit == Created /\ budget = MaxFaultWrites

FaultNext ==
  \/ Run
  \/ \E key \in Keys, value \in Values, io \in IOCalls : SetFails(key, value, io)

FaultSpec == FaultInit /\ [][FaultNext]_vars

(***************************************************************************)
(* C29.  A failed Set has no visible effect: whenever Set(k, v) returns an *)
(* error, from the WAL append or from the flush, Get(k) right after it     *)
(* returns what it returned right before it, and the WAL is as it was.     *)
(***************************************************************************)
C29_FailedSetInvisible ==
  [][\A key \in Keys, value \in Values, io \in IOCalls :
       (SetFails(key, value, io) /\ ret' # Nil)
         => \A after \in { Engine' } :
              /\ GetLocked(after, key, EmptyString).value = GetValue(key)
              /\ FileData(after.fs, wal.filePath) = WALData]_vars

(***************************************************************************)
(* C30.  The buffer stays below the flush threshold: in every quiescent    *)
(* state, after any Set, Delete, Recover, flush and restart (no flush      *)
(* fails in these runs), the write buffer has fewer entries than           *)
(* memTableSizeThreshold.                                                  *)
(***************************************************************************)
C30_BufferBelowThreshold ==
  (pc = Idle) => MemTableSize(memTable) < memTableSizeThreshold

(***************************************************************************)
(* The write buffer on its own.  A MemTable has one field, data, a Go map: *)
(* a reference to the map object made by NewMemTable, never reassigned.    *)
(* Entries() returns m.data, the reference itself; Set and Delete write    *)
(* the object it refers to.  memTable is the contents of that object.      *)
(***************************************************************************)
\* the map objects there are, by the reference that designates them
Heap == [data |-> memTable]

\* MemTable.Entries: return m.data
MemTableEntries == "data"

\* what a range loop or an index expression reads through a map reference
Deref(ref) == Heap[ref]

\* MemTable.Delete
MemTableDelete(m, key) == MapDelete(m, key)

BufferFrame ==
  UNCHANGED << ssTables, files, cache, mutex, pc, compactions, clock, phase, ret,
               lastSet, snap, writing >>

\* m.Set(key, value)
BufferSet(key, value) ==
  /\ budget > 0
  /\ budget' = budget - 1
  /\ memTable' = MemTableSet(memTable, key, value)
  /\ BufferFrame
  /\ UNCHANGED calls

\* m.Delete(key)
BufferDelete(key) ==
  /\ budget > 0
  /\ budget' = budget - 1
  /\ memTable' = MemTableDelete(memTable, key)
  /\ BufferFrame
  /\ UNCHANGED calls

\* client c calls m.Entries() and keeps the mapping returned; was is the
\* history of what the mapping held when it was returned
BufferEntries(c) ==
  /\ calls[c] = NoCall
  /\ calls' = [calls EXCEPT ![c] = [op |-> "Entries", key |-> EmptyString,
                                    value |-> EmptyString, at |-> "returned",
                                    err |-> Nil, entries |-> MemTableEntries,
                                    was |-> Deref(MemTableEntries)]]
  /\ BufferFrame
  /\ UNCHANGED << memTable, budget >>

BufferInit == Created /\ budget = MaxBufferWrites

BufferNext ==
  \/ \E key \in Keys, value \in Values : BufferSet(key, value)
  \/ \E key \in Keys : BufferDelete(key)
  \/ \E c \in Clients : BufferEntries(c)

BufferSpec == BufferInit /\ [][BufferNext]_vars

(***************************************************************************)
(* C31.  Entries() returns a snapshot: the mapping a client obtained from  *)
(* Entries() holds what it held when it was returned, whatever Set and     *)
(* Delete calls were made on the buffer since.                             *)
(***************************************************************************)
C31_EntriesSnapshot ==
  \A c \in Clients :
    calls[c].op = "Entries" => Deref(calls[c].entries) = calls[c].was

====
